---- MODULE Spec2Model ----
(***************************************************************************)
(* Blockspade/hirefree: the approval transaction route                     *)
(* (bot/frame/app/frames/deposit/tx/approval/route.ts) and the freelancer  *)
(* registration form component (FreelancerRegistration).                   *)
(*                                                                         *)
(* Optional values (a missing JSON field, undefined) are sets: {} is       *)
(* absent, {v} is present with value v.  Texts are sequences of            *)
(* one-character strings, so that parsing is computed digit by digit.      *)
(***************************************************************************)
EXTENDS Integers, Sequences, FiniteSets, TLC

VARIABLES
    req,        \* route: the request being handled, {} when none
    resp,       \* route: the response returned for req, {} when none yet
    consoleLog, \* route: what the handler passed to console.error, {} when nothing
    address,    \* form: useAccount().address, {} when no wallet is connected
    formData,   \* form: useState<FormData>
    error,      \* form: useState<ErrorType>
    loading,    \* form: useState<boolean>
    toast,      \* form: useState of the toast
    inflight,   \* form: the handleSubmit calls suspended at an await, by call number
    timers,     \* form: the pending setTimeout callbacks, in scheduling order
    page,       \* form: the page shown; the component is mounted on "register"
    submits,    \* form: handleSubmit calls so far
    fetches,    \* form: requests sent to /api/freelancer/register so far
    successes,  \* form: handleSubmit calls that reached the success branch
    pushes,     \* form: router.push('/home') calls so far
    done        \* form: the handleSubmit call that returned in the last step, {} when none

routeVars == <<req, resp, consoleLog>>

formVars == <<address, formData, error, loading, toast, inflight, timers, page,
              submits, fetches, successes, pushes, done>>

vars == <<req, resp, consoleLog, address, formData, error, loading, toast,
          inflight, timers, page, submits, fetches, successes, pushes, done>>

-----------------------------------------------------------------------------
(* Bounds *)

\* longest inputText drawn for a request
MaxTextLen == 3

\* handleSubmit calls in one behaviour
MaxSubmits == 2

\* milliseconds that pass in one step of the clock
TickMs == 1000

-----------------------------------------------------------------------------
(* Texts and decimal numerals *)

Digits == {"0", "1", "2", "3", "4", "5", "6", "7", "8", "9"}

\* the characters request texts are built from: digits, the point, the sign
\* and a letter
Chars == {"0", "5", ".", "-", "x"}

RECURSIVE TextsOfLen(_)
TextsOfLen(n) ==
    IF n = 0 THEN {<<>>}
    ELSE {Append(t, c) : t \in TextsOfLen(n - 1), c \in Chars}

Texts == UNION {TextsOfLen(n) : n \in 0..MaxTextLen}

RECURSIVE Zeros(_)
Zeros(n) == IF n <= 0 THEN <<>> ELSE <<"0">> \o Zeros(n - 1)

\* a digit string without its leading zeros; the empty string and all-zero
\* strings denote 0, written <<"0">>
RECURSIVE StripZeros(_)
StripZeros(ds) ==
    IF ds = <<>> THEN <<"0">>
    ELSE IF Head(ds) = "0" THEN StripZeros(Tail(ds))
    ELSE ds

DigitSeq == <<"0", "1", "2", "3", "4", "5", "6", "7", "8", "9">>

\* a digit string plus one (excess fraction digits may round up)
RECURSIVE Increment(_)
Increment(ds) ==
    IF ds = <<>> THEN <<"1">>
    ELSE LET last == ds[Len(ds)]
             init == SubSeq(ds, 1, Len(ds) - 1)
         IN IF last = "9" THEN Append(Increment(init), "0")
            ELSE Append(init, DigitSeq[(CHOOSE i \in 1..9 : DigitSeq[i] = last) + 1])

IsNegative(value) == value # <<>> /\ Head(value) = "-"

Unsigned(value) == IF IsNegative(value) THEN Tail(value) ELSE value

PointAt(value) == {i \in 1..Len(Unsigned(value)) : Unsigned(value)[i] = "."}

\* the digits before the point
IntegerPart(value) ==
    LET u == Unsigned(value)
    IN IF PointAt(value) = {} THEN u
       ELSE SubSeq(u, 1, (CHOOSE i \in PointAt(value) : TRUE) - 1)

\* the digits after the point
FractionPart(value) ==
    LET u == Unsigned(value)
    IN IF PointAt(value) = {} THEN <<>>
       ELSE SubSeq(u, (CHOOSE i \in PointAt(value) : TRUE) + 1, Len(u))

\* a decimal numeral as parseUnits reads one: an optional sign, then digits
\* with at most one point; a part without digits counts as 0, so "." and
\* "-" denote 0
IsDecimalNumeral(value) ==
    LET u == Unsigned(value)
    IN /\ Cardinality(PointAt(value)) <= 1
       /\ \A i \in 1..Len(u) : i \in PointAt(value) \/ u[i] \in Digits

-----------------------------------------------------------------------------
(* Approval transaction route *)

Value(opt) == CHOOSE v \in opt : TRUE

Range(seq) == {seq[i] : i \in 1..Len(seq)}

\* viem's parseUnits(value, decimals): the base-unit amount as a signed
\* decimal digit string (a bigint), the point moved `decimals` places right
parseUnits(value, decimals) ==
    LET fraction == FractionPart(value)
        digits ==
            IF Len(fraction) <= decimals
            THEN IntegerPart(value) \o fraction \o Zeros(decimals - Len(fraction))
            ELSE LET kept == IntegerPart(value) \o SubSeq(fraction, 1, decimals)
                 IN IF fraction[decimals + 1] \in {"5", "6", "7", "8", "9"}
                    THEN Increment(kept) ELSE kept
    IN [neg    |-> IsNegative(value) /\ StripZeros(digits) # <<"0">>,
        digits |-> StripZeros(digits)]

\* parseUnits throws on a text that is no decimal numeral
parseUnitsThrows(value) == ~IsDecimalNumeral(value)

\* the stablecoin's decimals, the second argument of parseUnits
UsdcDecimals == 6

\* viem's encodeFunctionData for approve(address spender, uint256 amount):
\* it throws unless spender is an address and amount is non-negative
encodeThrows(spender, amount) == spender = {} \/ amount.neg

encodeFunctionData(functionName, spender, amount) ==
    [functionName |-> functionName, args |-> <<Value(spender), amount>>]

\* the static table; addresses stand for the constants of lib/constants
chainConfigs ==
    [k \in {"optimism-sepolia", "arbitrum-sepolia"} |->
        IF k = "optimism-sepolia"
        THEN [chain           |-> {[id |-> 11155420]},
              contractAddress |-> {"contractAddresses.optimismSepolia"},
              usdcAddress     |-> {"USDC.optimismSepolia"}]
        ELSE [chain           |-> {[id |-> 421614]},
              contractAddress |-> {"contractAddresses.arbitrumSepolia"},
              usdcAddress     |-> {"USDC.arbitrumSepolia"}]]

\* keys every object literal inherits: indexing with one yields a truthy
\* value that has none of ChainConfig's fields
InheritedKeys == {"constructor"}

\* chainConfigs[chainKey], {} when undefined
chainConfig(key) ==
    IF key \in DOMAIN chainConfigs THEN {chainConfigs[key]}
    ELSE IF key \in InheritedKeys
         THEN {[chain |-> {}, contractAddress |-> {}, usdcAddress |-> {}]}
         ELSE {}

\* untrustedData.network || "optimism-sepolia"
chainKey(untrustedData) ==
    IF untrustedData.network = {} \/ untrustedData.network = {""}
    THEN "optimism-sepolia"
    ELSE Value(untrustedData.network)

\* untrustedData.inputText || "1"
inputAmount(untrustedData) ==
    IF untrustedData.inputText = {} \/ untrustedData.inputText = {<<>>}
    THEN <<"1">>
    ELSE Value(untrustedData.inputText)

\* a mutant of amt: the token is taken to have 18 decimals
amtEtherDecimals(untrustedData) == parseUnits(inputAmount(untrustedData), 18)

amt(untrustedData) == parseUnits(inputAmount(untrustedData), UsdcDecimals)

\* a mutant of calldata: the token address is passed as the spender
calldataSpenderIsToken(config, amount) ==
    encodeFunctionData("approve", config.usdcAddress, amount)

calldata(config, amount) ==
    encodeFunctionData("approve", config.contractAddress, amount)

\* the transaction descriptor; chainId is the text "eip155:" followed by
\* the chain's id
response(config, data) ==
    [chainId |-> <<"eip155:", Value(config.chain).id>>,
     method  |-> "eth_sendTransaction",
     params  |-> [abi  |-> "USDCABI",
                  to   |-> Value(config.usdcAddress),
                  data |-> data]]

\* NextResponse.json(body, {status})
NextResponseJson(body, status) == [status |-> status, body |-> body]

\* the response of the catch block
ErrorResponse ==
    NextResponseJson([error |-> "Failed to process frame request"], 400)

\* a mutant of MissingData: only untrustedData is checked
MissingDataUntrustedOnly(r) == r.untrustedData = {}

\* !untrustedData || !trustedData
MissingData(r) == r.untrustedData = {} \/ r.trustedData = {}

\* the first exception the try block raises on request r, {} when none
Thrown(r) ==
    IF r.json = "invalid" THEN {"SyntaxError: request body is not JSON"}
    ELSE IF r.json = "null" THEN {"TypeError: cannot destructure null"}
    ELSE IF MissingData(r)
    THEN {"Missing untrustedData or trustedData"}
    ELSE LET u == Value(r.untrustedData)
             c == chainConfig(chainKey(u))
         IN IF c = {} THEN {"Unsupported network"}
            ELSE IF parseUnitsThrows(inputAmount(u))
            THEN {"InvalidDecimalNumberError"}
            ELSE IF encodeThrows(Value(c).contractAddress, amt(u))
            THEN {"encodeFunctionData error"}
            ELSE IF Value(c).chain = {}
            THEN {"TypeError: chain is undefined"}
            ELSE {}

Networks ==
    {"", "optimism-sepolia", "arbitrum-sepolia", "unsupported-chain",
     "constructor"}

UntrustedDatas ==
    [network   : {{}} \cup {{n} : n \in Networks},
     inputText : {{}} \cup {{t} : t \in Texts}]

TrustedDatas == {[messageBytes |-> "0x"]}

\* request bodies: not JSON, the JSON value null, or a JSON object whose
\* two fields may each be missing
Requests ==
    {[json |-> "invalid"], [json |-> "null"]} \cup
    [json          : {"object"},
     untrustedData : {{}} \cup {{u} : u \in UntrustedDatas},
     trustedData   : {{}} \cup {{t} : t \in TrustedDatas}]

\* a client sends a request; invocations are independent of each other
Request(r) ==
    /\ req = {}
    /\ req' = {r}
    /\ resp' = {}
    /\ consoleLog' = {}
    /\ UNCHANGED formVars

\* export async function POST(req)
POST ==
    /\ req # {}
    /\ resp = {}
    /\ LET r == Value(req)
       IN IF Thrown(r) # {}
          THEN /\ consoleLog' = Thrown(r)
               /\ resp' = {ErrorResponse}
          ELSE LET u == Value(r.untrustedData)
                   c == Value(chainConfig(chainKey(u)))
               IN /\ consoleLog' = {}
                  /\ resp' = {NextResponseJson(response(c, calldata(c, amt(u))), 200)}
    /\ UNCHANGED <<req, formVars>>

\* the response is returned and the invocation ends; nothing is kept
Return ==
    /\ resp # {}
    /\ req' = {}
    /\ resp' = {}
    /\ consoleLog' = {}
    /\ UNCHANGED formVars

RouteInit ==
    /\ req = {}
    /\ resp = {}
    /\ consoleLog = {}

NextRoute ==
    \/ \E r \in Requests : Request(r)
    \/ POST
    \/ Return

-----------------------------------------------------------------------------
(* Registration form component *)

NoError == [type |-> "null", message |-> ""]

\* handleSkillsChange: split on "," and trim each piece
RECURSIVE Split(_)
Split(raw) ==
    IF \A i \in 1..Len(raw) : raw[i] # "," THEN <<raw>>
    ELSE LET c == CHOOSE i \in 1..Len(raw) :
                    raw[i] = "," /\ \A j \in 1..(i - 1) : raw[j] # ","
         IN <<SubSeq(raw, 1, c - 1)>> \o Split(SubSeq(raw, c + 1, Len(raw)))

RECURSIVE TrimStart(_)
TrimStart(t) == IF t # <<>> /\ Head(t) = " " THEN TrimStart(Tail(t)) ELSE t

RECURSIVE TrimEnd(_)
TrimEnd(t) ==
    IF t # <<>> /\ t[Len(t)] = " " THEN TrimEnd(SubSeq(t, 1, Len(t) - 1)) ELSE t

Trim(t) == TrimEnd(TrimStart(t))

SkillsOf(raw) == [i \in 1..Len(Split(raw)) |-> Trim(Split(raw)[i])]

\* what the user types into the skills field
SkillInputs ==
    {<<"R", ",">>, <<"R", ",", " ", "T">>}

handleSkillsChange(raw) ==
    /\ page = "register"
    /\ address # {}
    /\ formData' = [formData EXCEPT !.skills = SkillsOf(raw)]
    /\ done' = {}
    /\ UNCHANGED <<address, error, loading, toast, inflight, timers, page,
                   submits, fetches, successes, pushes, routeVars>>

\* the wallet connects or disconnects (useAccount)
Addresses == {"0xA11ce"}

WalletChanges ==
    /\ page = "register"
    /\ \E a \in {{}} \cup {{w} : w \in Addresses} :
          /\ a # address
          /\ address' = a
    /\ done' = {}
    /\ UNCHANGED <<formData, error, loading, toast, inflight, timers, page,
                   submits, fetches, successes, pushes, routeVars>>

\* the delay of the redirect, setTimeout's second argument
RedirectDelay == 3000

\* a mutant of ScheduleRedirect: the delay is left out
ScheduleRedirectAtOnce(pending) ==
    Append(pending, [delay |-> 0, elapsed |-> 0])

\* a mutant of ScheduleRedirect: one timer handle, rescheduled on each success
ScheduleRedirectDebounced(pending) ==
    <<[delay |-> RedirectDelay, elapsed |-> 0]>>

\* setTimeout(() => router.push('/home'), 3000)
ScheduleRedirect(pending) ==
    Append(pending, [delay |-> RedirectDelay, elapsed |-> 0])

\* a mutant of WalletMissing: the guard is left out
WalletMissingNever(addr) == FALSE

\* !address
WalletMissing(addr) == addr = {}

\* a mutant of ErrorAtSubmit: the error is not reset when a submit starts
ErrorAtSubmitKept(current) == current

\* setError({ type: null, message: '' }) at the start of handleSubmit
ErrorAtSubmit(current) == NoError

\* a mutant of LoadingAfterFinally: the flag is not released
LoadingAfterFinallyStuck == TRUE

\* setLoading(false) in the finally block
LoadingAfterFinally == FALSE

\* what an awaited fetch may produce: a rejection, or a response with its
\* ok flag and body; a body is unreadable (json() rejects), the JSON value
\* null, or an object with a message
ResponseBodies ==
    {[kind |-> "unreadable", message |-> ""],
     [kind |-> "null", message |-> ""],
     [kind |-> "object", message |-> "This wallet is already registered"],
     [kind |-> "object", message |-> "Internal server error"]}

Responses == [ok : BOOLEAN, body : ResponseBodies]

FetchResults ==
    {[rejected |-> TRUE, response |-> {}]} \cup
    {[rejected |-> FALSE, response |-> {r}] : r \in Responses}

\* the message of the Error the try block throws on this response, {} when
\* it throws nothing
ThrownBySubmit(r) ==
    IF r.body.kind = "unreadable" THEN {"SyntaxError"}
    ELSE IF ~r.ok
         THEN IF r.body.kind = "null" THEN {"TypeError"}
              ELSE IF r.body.message = "This wallet is already registered"
                   THEN {"ALREADY_REGISTERED"}
                   ELSE {"REGISTRATION_FAILED"}
         ELSE {}

WarningToast ==
    [show |-> TRUE, message |-> "This wallet is already registered",
     type |-> "warning"]

SuccessToast ==
    [show |-> TRUE,
     message |-> "Registration successful! Redirecting to dashboard...",
     type |-> "success"]

ErrorToast ==
    [show |-> TRUE, message |-> "Registration failed. Please try again later.",
     type |-> "error"]

\* the toast before the throw: the warning is shown before
\* Error('ALREADY_REGISTERED') is thrown
ToastBeforeThrow(message, current) ==
    IF message = "ALREADY_REGISTERED" THEN WarningToast ELSE current

\* a mutant of CatchToast: the default case shows no toast
CatchToastSilent(message, current) == current

\* the catch block's toast
CatchToast(message, current) ==
    IF message = "ALREADY_REGISTERED" THEN current ELSE ErrorToast

\* the catch block's error
CatchError(message) ==
    IF message = "ALREADY_REGISTERED"
    THEN [type |-> "ALREADY_REGISTERED",
          message |-> "This wallet is already registered. Cannot register more than once."]
    ELSE [type |-> "REGISTRATION_FAILED",
          message |-> "Registration failed. Please try again later."]

\* the catch and finally blocks, for a throw with this message from call i
Caught(i, message, result) ==
    /\ toast' = CatchToast(message, ToastBeforeThrow(message, toast))
    /\ error' = CatchError(message)
    /\ loading' = LoadingAfterFinally
    /\ inflight' = [j \in DOMAIN inflight \ {i} |-> inflight[j]]
    /\ done' = {[call |-> i, wallet |-> inflight[i].wallet, result |-> {result}]}
    /\ UNCHANGED <<timers, successes>>

\* handleSubmit up to its first await (or its early return), called with
\* the address its closure holds
handleSubmit(addr) ==
    /\ submits < MaxSubmits
    /\ submits' = submits + 1
    /\ IF WalletMissing(addr)
       THEN /\ error' = [type |-> "WALLET_NOT_CONNECTED",
                         message |-> "Please connect your wallet first"]
            /\ loading' = FALSE
            /\ done' = {[call |-> submits + 1, wallet |-> addr, result |-> {}]}
            /\ UNCHANGED <<inflight, fetches>>
       ELSE /\ error' = ErrorAtSubmit(error)
            /\ loading' = TRUE
            /\ fetches' = fetches + 1
            /\ inflight' = [j \in DOMAIN inflight \cup {submits + 1} |->
                              IF j = submits + 1
                              THEN [pc |-> "fetch", wallet |-> addr, response |-> {}]
                              ELSE inflight[j]]
            /\ done' = {}
    /\ UNCHANGED <<address, formData, toast, timers, page, successes, pushes,
                   routeVars>>

\* the form's onSubmit: the form is rendered only with a wallet address, and
\* its submit button is disabled while loading
FormSubmit ==
    /\ page = "register"
    /\ address # {}
    /\ ~loading
    /\ handleSubmit(address)

\* handleSubmit called as a function, whatever is rendered
DirectSubmit == handleSubmit(address)

\* await fetch(...) settles for call i
FetchSettles(i, result) ==
    /\ i \in DOMAIN inflight
    /\ inflight[i].pc = "fetch"
    /\ IF result.rejected
       THEN Caught(i, "Failed to fetch", result)
       ELSE /\ inflight' = [inflight EXCEPT ![i] =
                    [pc |-> "json", wallet |-> @.wallet, response |-> result.response]]
            /\ done' = {}
            /\ UNCHANGED <<error, loading, toast, timers, successes>>
    /\ UNCHANGED <<address, formData, page, submits, fetches, pushes, routeVars>>

\* await response.json() settles for call i, and handleSubmit runs to its end
JsonSettles(i) ==
    /\ i \in DOMAIN inflight
    /\ inflight[i].pc = "json"
    /\ LET r == Value(inflight[i].response)
           result == [rejected |-> FALSE, response |-> {r}]
       IN IF ThrownBySubmit(r) # {}
          THEN Caught(i, Value(ThrownBySubmit(r)), result)
          ELSE /\ toast' = SuccessToast
               /\ timers' = ScheduleRedirect(timers)
               /\ successes' = successes + 1
               /\ loading' = LoadingAfterFinally
               /\ inflight' = [j \in DOMAIN inflight \ {i} |-> inflight[j]]
               /\ done' = {[call |-> i, wallet |-> inflight[i].wallet,
                            result |-> {result}]}
               /\ UNCHANGED error
    /\ UNCHANGED <<address, formData, page, submits, fetches, pushes, routeVars>>

\* a mutant of RetryOffered: "Try Again" is offered for every error
RetryOfferedAlways(type) == type # "null"

\* errorActions: the "Try Again" button is rendered for REGISTRATION_FAILED
RetryOffered(type) == type = "REGISTRATION_FAILED"

\* errorActions: the "Go to Login" link is rendered for ALREADY_REGISTERED
LoginOffered(type) == type = "ALREADY_REGISTERED"

\* the "Try Again" button's onClick
TryAgain ==
    /\ page = "register"
    /\ RetryOffered(error.type)
    /\ error' = NoError
    /\ done' = {}
    /\ UNCHANGED <<address, formData, loading, toast, inflight, timers, page,
                   submits, fetches, successes, pushes, routeVars>>

\* the "Go to Login" link is followed
GoToLogin ==
    /\ page = "register"
    /\ LoginOffered(error.type)
    /\ page' = "/login"
    /\ done' = {}
    /\ UNCHANGED <<address, formData, error, loading, toast, inflight, timers,
                   submits, fetches, successes, pushes, routeVars>>

\* the toast's onClose
CloseToast ==
    /\ page = "register"
    /\ toast.show
    /\ toast' = [toast EXCEPT !.show = FALSE]
    /\ done' = {}
    /\ UNCHANGED <<address, formData, error, loading, inflight, timers, page,
                   submits, fetches, successes, pushes, routeVars>>

Min(a, b) == IF a <= b THEN a ELSE b

\* TickMs milliseconds pass; a timer's elapsed time is counted up to its delay
Tick ==
    /\ timers' = [k \in 1..Len(timers) |->
                    [timers[k] EXCEPT !.elapsed = Min(@ + TickMs, timers[k].delay)]]
    /\ done' = {}
    /\ UNCHANGED <<address, formData, error, loading, toast, inflight, page,
                   submits, fetches, successes, pushes, routeVars>>

\* a timer whose delay has passed runs its callback, router.push('/home')
TimerFires(k) ==
    /\ k \in 1..Len(timers)
    /\ timers[k].elapsed >= timers[k].delay
    /\ timers' = SubSeq(timers, 1, k - 1) \o SubSeq(timers, k + 1, Len(timers))
    /\ pushes' = pushes + 1
    /\ page' = "/home"
    /\ done' = {}
    /\ UNCHANGED <<address, formData, error, loading, toast, inflight,
                   submits, fetches, successes, routeVars>>

FormInit ==
    /\ address \in {{}} \cup {{w} : w \in Addresses}
    /\ formData = [fullName |-> "", email |-> "", skills |-> <<>>,
                   experience |-> "", hourlyRate |-> 0, portfolio |-> "",
                   bio |-> ""]
    /\ error = NoError
    /\ loading = FALSE
    /\ toast = [show |-> FALSE, message |-> "", type |-> "success"]
    /\ inflight = <<>>
    /\ timers = <<>>
    /\ page = "register"
    /\ submits = 0
    /\ fetches = 0
    /\ successes = 0
    /\ pushes = 0
    /\ done = {}

Init == RouteInit /\ FormInit

\* what runs without the user: promises settle, time passes, timers fire
Background ==
    \/ \E i \in 1..MaxSubmits, result \in FetchResults : FetchSettles(i, result)
    \/ \E i \in 1..MaxSubmits : JsonSettles(i)
    \/ Tick
    \/ \E k \in 1..MaxSubmits : TimerFires(k)

\* what the user and the wallet do besides submitting
Interaction ==
    \/ \E raw \in SkillInputs : handleSkillsChange(raw)
    \/ WalletChanges
    \/ TryAgain
    \/ GoToLogin
    \/ CloseToast

\* the component as rendered
Next == FormSubmit \/ Interaction \/ Background

Spec == Init /\ [][Next]_vars

\* the route on its own: the two features share no state
SpecRoute == Init /\ [][NextRoute]_vars

\* handleSubmit as a function: it may be called in any state
NextHandler == DirectSubmit \/ Interaction \/ Background

SpecHandler == Init /\ [][NextHandler]_vars

\* fetch settles, time passes and due timers fire
Fairness ==
    /\ WF_vars(\E i \in 1..MaxSubmits, result \in FetchResults : FetchSettles(i, result))
    /\ WF_vars(\E i \in 1..MaxSubmits : JsonSettles(i))
    /\ WF_vars(Tick)
    /\ WF_vars(\E k \in 1..MaxSubmits : TimerFires(k))

SpecLive == Spec /\ Fairness

SpecHandlerLive == SpecHandler /\ Fairness

-----------------------------------------------------------------------------
(* Claims about the approval route *)

Answered == req # {} /\ resp # {}

IsGenericError(r) ==
    r = [status |-> 400, body |-> [error |-> "Failed to process frame request"]]

IsDescriptor(r) ==
    /\ r.status = 200
    /\ DOMAIN r.body = {"chainId", "method", "params"}
    /\ DOMAIN r.body.params = {"abi", "to", "data"}

\* the network key the request selects: its network field, or
\* "optimism-sepolia" when the field is absent or empty
SelectedKey(r) ==
    IF r.untrustedData = {} THEN "optimism-sepolia"
    ELSE LET n == Value(r.untrustedData).network
         IN IF n = {} \/ n = {""} THEN "optimism-sepolia" ELSE Value(n)

\* the amount text the request selects: its inputText, or "1" when the
\* field is absent or empty
SelectedText(r) ==
    IF r.untrustedData = {} THEN <<"1">>
    ELSE LET t == Value(r.untrustedData).inputText
         IN IF t = {} \/ t = {<<>>} THEN <<"1">> ELSE Value(t)

\* a numeral below zero, which approve's uint256 amount cannot encode
IsBelowZero(t) ==
    /\ IsDecimalNumeral(t)
    /\ IsNegative(t)
    /\ \E i \in 1..Len(t) : t[i] \in Digits \ {"0"}

\* C2: every request is answered, with a 200 transaction descriptor or
\* with 400 {error: "Failed to process frame request"} and nothing else;
\* the answer is the 400 shape whenever the body is not JSON, untrustedData
\* or trustedData is absent, the network key is not in the table, the
\* amount text is no decimal numeral or the encoding throws (a negative
\* amount); the cause goes to the log, never into the response.
C2_GenericErrorOrDescriptor ==
    /\ (req # {} /\ resp = {}) => ENABLED POST
    /\ Answered =>
         LET r == Value(req)
             a == Value(resp)
         IN /\ IsGenericError(a) \/ IsDescriptor(a)
            /\ ~(IsGenericError(a) /\ IsDescriptor(a))
            /\ r.json # "object" => IsGenericError(a)
            /\ (r.json = "object" /\ (r.untrustedData = {} \/ r.trustedData = {}))
                  => IsGenericError(a)
            /\ (r.json = "object" /\ SelectedKey(r) \notin {"optimism-sepolia", "arbitrum-sepolia"})
                  => IsGenericError(a)
            /\ (r.json = "object" /\ ~IsDecimalNumeral(SelectedText(r)))
                  => IsGenericError(a)
            /\ (r.json = "object" /\ IsBelowZero(SelectedText(r)))
                  => IsGenericError(a)
            /\ IsGenericError(a) <=> consoleLog # {}
            /\ IsGenericError(a) => consoleLog \cap Range(<<a.body.error>>) = {}

\* C2 witness: an unsupported network was answered with the generic error
\* and its cause was logged.
C2_Witness ==
    /\ Answered
    /\ Value(req).json = "object"
    /\ Value(req).untrustedData # {}
    /\ Value(req).trustedData # {}
    /\ Value(Value(req).untrustedData).network = {"unsupported-chain"}
    /\ IsGenericError(Value(resp))
    /\ consoleLog = {"Unsupported network"}

\* C3: in a successful response chainId, params.to and the spender of the
\* encoded approve call all come from the table entry of the selected
\* network key, and method is "eth_sendTransaction".
C3_SameChainConfig ==
    (Answered /\ Value(resp).status = 200) =>
        LET r == Value(req)
            b == Value(resp).body
            k == SelectedKey(r)
        IN /\ k \in DOMAIN chainConfigs
           /\ b.chainId = <<"eip155:", Value(chainConfigs[k].chain).id>>
           /\ b.params.to = Value(chainConfigs[k].usdcAddress)
           /\ b.params.data.functionName = "approve"
           /\ b.params.data.args[1] = Value(chainConfigs[k].contractAddress)
           /\ b.method = "eth_sendTransaction"
           /\ k = "arbitrum-sepolia" =>
                 /\ b.chainId = <<"eip155:", 421614>>
                 /\ b.params.to = "USDC.arbitrumSepolia"
                 /\ b.params.data.args[1] = "contractAddresses.arbitrumSepolia"
           /\ k = "optimism-sepolia" =>
                 /\ b.chainId = <<"eip155:", 11155420>>
                 /\ b.params.to = "USDC.optimismSepolia"
                 /\ b.params.data.args[1] = "contractAddresses.optimismSepolia"

\* C3 witness: a request for arbitrum-sepolia with inputText "5" succeeded.
C3_Witness ==
    /\ Answered
    /\ Value(resp).status = 200
    /\ Value(Value(req).untrustedData).network = {"arbitrum-sepolia"}
    /\ Value(Value(req).untrustedData).inputText = {<<"5">>}

C4_WitnessFraction ==
    /\ Answered
    /\ Value(resp).status = 200
    /\ Value(Value(req).untrustedData).inputText = {<<"5", ".", "5">>}
    /\ Value(resp).body.params.data.args[2].digits = <<"5", "5", "0", "0", "0", "0", "0">>

-----------------------------------------------------------------------------
(* Claims about the registration form *)

\* the call that returned in the last step, and what its fetch produced
Returned == done # {}

ReturnedCall == Value(done)

GotResponse == Returned /\ ReturnedCall.result # {} /\ ~Value(ReturnedCall.result).rejected

ReturnedResponse == Value(Value(ReturnedCall.result).response)

ErrorActive == error.type # "null"

SuccessToastActive == toast.show /\ toast.type = "success"

WarningToastActive == toast.show /\ toast.type = "warning"

ErrorToastActive == toast.show /\ toast.type = "error"

ActiveCount ==
    (IF ErrorActive THEN 1 ELSE 0) + (IF SuccessToastActive THEN 1 ELSE 0)
        + (IF WarningToastActive THEN 1 ELSE 0)

\* C1: a handleSubmit call made with no wallet address sends no request,
\* ends in the same step with error WALLET_NOT_CONNECTED and loading false,
\* and leaves the toast as it was; every request sent carries an address.
C1_NoWalletNoRequest ==
    /\ [](\A i \in DOMAIN inflight : inflight[i].wallet # {})
    /\ []((Returned /\ ReturnedCall.wallet = {}) =>
            /\ ReturnedCall.result = {}
            /\ error.type = "WALLET_NOT_CONNECTED"
            /\ ~loading)
    /\ [][(submits' = submits + 1 /\ address = {}) =>
            /\ fetches' = fetches
            /\ inflight' = inflight
            /\ toast' = toast
            /\ error'.type = "WALLET_NOT_CONNECTED"
            /\ ~loading'
            /\ done' # {}]_vars

\* C1 witness: a call without a wallet returned while an earlier call's
\* toast was still shown.
C1_Witness ==
    /\ Returned
    /\ ReturnedCall.wallet = {}
    /\ error.type = "WALLET_NOT_CONNECTED"
    /\ toast.show
    /\ fetches = 1
    /\ submits = 2

\* C5 as stated: every call whose request returned an ok response ends with
\* the success toast and a redirect scheduled 3000 ms ahead, and there are
\* never more navigations than successes.
C5_Original ==
    /\ (GotResponse /\ ReturnedResponse.ok) =>
            /\ SuccessToastActive
            /\ timers # <<>>
            /\ timers[Len(timers)] = [delay |-> 3000, elapsed |-> 0]
    /\ pushes <= successes

\* C5 amended: every call whose request returned an ok response with a body
\* that reads as JSON ends with the success toast and a redirect scheduled
\* 3000 ms ahead; router.push('/home') runs only for a timer of a success,
\* and only once 3000 ms have passed since it was scheduled.
C5_SuccessSchedulesRedirect ==
    /\ []((GotResponse /\ ReturnedResponse.ok /\ ReturnedResponse.body.kind # "unreadable") =>
            /\ SuccessToastActive
            /\ timers # <<>>
            /\ timers[Len(timers)] = [delay |-> 3000, elapsed |-> 0])
    /\ [](pushes <= successes)
    /\ [][successes' # successes =>
            /\ successes' = successes + 1
            /\ GotResponse' /\ ReturnedResponse'.ok]_vars
    /\ [][(pushes' # pushes \/ (page' = "/home" /\ page # "/home")) =>
            /\ pushes' = pushes + 1
            /\ \E k \in 1..Len(timers) :
                  /\ timers[k].elapsed >= 3000
                  /\ Len(timers') = Len(timers) - 1]_vars

\* C5 witness: the redirect has fired after a success.
C5_Witness ==
    /\ pushes = 1
    /\ successes = 1
    /\ page = "/home"
    /\ SuccessToastActive

\* C6: a call whose response is not ok with the message "This wallet is
\* already registered" ends with the warning toast shown and error
\* ALREADY_REGISTERED; in that state "Try Again" is not offered, the login
\* link is, and only the start of a new submit changes the error.
C6_AlreadyRegistered ==
    /\ []((/\ GotResponse
            /\ ~ReturnedResponse.ok
            /\ ReturnedResponse.body.kind = "object"
            /\ ReturnedResponse.body.message = "This wallet is already registered") =>
            /\ WarningToastActive
            /\ error.type = "ALREADY_REGISTERED")
    /\ [](error.type = "ALREADY_REGISTERED" =>
            /\ ~ENABLED TryAgain
            /\ page = "register" => ENABLED GoToLogin)
    /\ [][(error.type = "ALREADY_REGISTERED" /\ error' # error) =>
            submits' = submits + 1]_vars

\* C6 witness: a call has just ended with ALREADY_REGISTERED and the
\* warning toast.
C6_Witness ==
    /\ Returned
    /\ error.type = "ALREADY_REGISTERED"
    /\ WarningToastActive

\* the call ended on the path of C7: the fetch rejected, the body could not
\* be read, or the response was not ok without the already-registered message
FailedPath ==
    /\ Returned
    /\ ReturnedCall.result # {}
    /\ \/ Value(ReturnedCall.result).rejected
       \/ ReturnedResponse.body.kind = "unreadable"
       \/ /\ ~ReturnedResponse.ok
          /\ ~(/\ ReturnedResponse.body.kind = "object"
                /\ ReturnedResponse.body.message = "This wallet is already registered")

\* C7: such a call ends with the error toast shown and error
\* REGISTRATION_FAILED, and it does return (it is no longer suspended);
\* "Try Again" is then offered, and it resets the error to none and leaves
\* toast, loading and form data as they were.
C7_RegistrationFailed ==
    /\ [](FailedPath =>
            /\ ErrorToastActive
            /\ error.type = "REGISTRATION_FAILED"
            /\ ReturnedCall.call \notin DOMAIN inflight)
    /\ []((error.type = "REGISTRATION_FAILED" /\ page = "register") => ENABLED TryAgain)
    /\ [][(error.type = "REGISTRATION_FAILED" /\ error'.type = "null" /\ submits' = submits) =>
            /\ error' = [type |-> "null", message |-> ""]
            /\ toast' = toast
            /\ loading' = loading
            /\ formData' = formData]_vars

\* C7 witness: after a failed call "Try Again" was pressed: the error is
\* none and the error toast is still shown.
C7_Witness ==
    /\ error.type = "null"
    /\ ErrorToastActive
    /\ ~loading
    /\ submits >= 1

C8_WitnessLoading == loading /\ DOMAIN inflight # {}

\* C9 as stated: when a call returns, exactly one of error, success toast
\* and warning toast is active.
C9_Original == Returned => ActiveCount = 1

\* C9 amended: when a call submitted through the form returns, exactly one
\* of error, success toast and warning toast is active, except that a call
\* ending in ALREADY_REGISTERED leaves two active, the error and the
\* warning toast.
C9_ExactlyOneUnlessAlready ==
    Returned =>
        IF error.type = "ALREADY_REGISTERED"
        THEN ErrorActive /\ WarningToastActive /\ ~SuccessToastActive
        ELSE ActiveCount = 1

\* C9 witness: a call returned with ALREADY_REGISTERED, error and warning
\* toast both active.
C9_Witness ==
    /\ Returned
    /\ error.type = "ALREADY_REGISTERED"
    /\ ActiveCount = 2

\* C10: a scheduled redirect is never cancelled: every success adds a timer
\* of its own, a timer leaves only by running router.push('/home'), its
\* elapsed time is never reset, and each success is followed by a
\* navigation of its own, whatever else happens.
C10_RedirectNeverCancelled ==
    /\ [](successes = pushes + Len(timers))
    /\ [][Len(timers') < Len(timers) =>
            /\ Len(timers') = Len(timers) - 1
            /\ pushes' = pushes + 1]_vars
    /\ [][\A k \in 1..Len(timers) :
            Len(timers') >= Len(timers) => timers'[k].elapsed >= timers[k].elapsed]_vars
    /\ \A n \in 1..MaxSubmits : (successes >= n) ~> (pushes >= n)

\* C10 witness: a call succeeded, another call failed, and both the
\* navigation of the first and the error of the second are there.
C10_Witness ==
    /\ pushes >= 1
    /\ error.type = "REGISTRATION_FAILED"
    /\ submits = 2

\* C10 second case: two successes, two navigations.
C10_WitnessTwice == pushes = 2 /\ successes = 2

====
